---- MODULE Spec2Model ----
(***************************************************************************)
(* A model of tagwork.py: the walk over a directory tree of workout files, *)
(* the hierarchical group identifiers given to the directories, the        *)
(* patching of the <name> and <description> elements and the mirrored,     *)
(* tagged output tree.                                                     *)
(*                                                                         *)
(* Strings are sequences of one-character strings, so that concatenation,  *)
(* splitting and comparison of paths, tags and element texts are computed  *)
(* as the program computes them.  An XML text is held in parsed form (a    *)
(* record of the root tag and its children) or is Malformed.               *)
(*                                                                         *)
(* The input tree is listed as os.walk lists it: directories, symbolic     *)
(* links to directories (listed, never walked into) and files.  The output *)
(* tree starts as the run finds it on disk: absent, left by an earlier run, *)
(* or with a regular file or a directory where the run needs the other.    *)
(*                                                                         *)
(* Beyond what the two trees explain, a bounded number of operations fail: *)
(* the listing of a directory (os.walk passes the directory over), the     *)
(* read of an input file, a mkdir of os.makedirs (the directories made     *)
(* before it stay), the open of an output file, and the write into an      *)
(* output file that was opened (the file stays, empty).                    *)
(***************************************************************************)
EXTENDS Integers, Sequences, FiniteSets, TLC

VARIABLES
    pc,                           \* position in main()
    input_workout_root_dir,       \* the directory the dialog returned, or None
    stack,                        \* os.walk: directories still to be visited
    current_directory,            \* loop variable of the walk
    filenames,                    \* file names of current_directory not yet handled
    directory_id_map,             \* input directory path -> group id
    child_directory_counter_map,  \* input directory path -> next child number
    updated_xml,                  \* local variable of main(): Unbound until first assigned
    processed_file_count,
    outDirs,                      \* directories existing in the output tree
    outFiles,                     \* regular files of the output tree: path -> content
    existing,                     \* the output tree as it was before the run
    stderr,                       \* the errors printed, as <<message, path, error>>
    summary,                      \* the final line printed: <<groups, files>>
    fsDirs,                       \* the directories of the input tree the walk has met
    fsLinks,                      \* the symbolic links to directories the walk has met
    unlisted,                     \* the directories os.walk could not list and passed over
    faults,                       \* the failures so far that the two trees do not explain
    fsFiles,                      \* input file path -> content, as scanned
    attempts,                     \* input file path -> times the file loop took it
    idWrites,                     \* the assignments made to directory_id_map, in order
    writtenFor,                   \* input file path -> the output file opened for it
    xml_content, group_id, file_dir, patched   \* the patcher on its own

vars == <<pc, input_workout_root_dir, stack, current_directory, filenames,
          directory_id_map, child_directory_counter_map, updated_xml,
          processed_file_count, outDirs, outFiles, existing, stderr, summary,
          fsDirs, fsLinks, unlisted, faults, fsFiles, attempts, idWrites,
          writtenFor, xml_content, group_id, file_dir, patched>>

walkVars == <<pc, input_workout_root_dir, stack, current_directory, filenames,
              directory_id_map, child_directory_counter_map, updated_xml,
              processed_file_count, outDirs, outFiles, existing, stderr, summary,
              fsDirs, fsLinks, unlisted, faults, fsFiles, attempts, idWrites,
              writtenFor>>

patchVars == <<xml_content, group_id, file_dir, patched>>

(***************************************************************************)
(* Bounds of the model.                                                    *)
(***************************************************************************)
MaxEntries == 3    \* directories and files in the input tree, below its root
MaxFaults == 2     \* listings, reads, mkdirs and writes that fail in one run
MaxChildren == 2   \* child elements of a document given to the patcher alone

(***************************************************************************)
(* Values.                                                                 *)
(***************************************************************************)
None == <<"None">>                 \* Python's None; no string, its element is no character
Unbound == [kind |-> "unbound"]    \* a local variable not yet assigned
Malformed == [kind |-> "malformed"]  \* a text ET.fromstring rejects
EmptyFile == [kind |-> "empty"]    \* a file opened for writing and never written
OldFile == [kind |-> "old"]        \* a regular file that was there before the run

Doc(tag, children) == [kind |-> "doc", tag |-> tag, children |-> children]
Elem(tag, text) == [tag |-> tag, text |-> text]

s_name == <<"n", "a", "m", "e">>
s_description == <<"d", "e", "s", "c", "r", "i", "p", "t", "i", "o", "n">>
s_author == <<"a", "u", "t", "h", "o", "r">>
s_workout == <<"w", "o", "r", "k", "o", "u", "t">>
s_workout_file == <<"w", "o", "r", "k", "o", "u", "t", "_", "f", "i", "l", "e">>
s_Ride == <<"R", "i", "d", "e">>
s_Easy == <<"E", "a", "s", "y">>
s_zwo == <<".", "z", "w", "o">>
s_xml == <<".", "x", "m", "l">>
s_File == <<"F", "i", "l", "e", ":">>
s_tagged == <<"_", "t", "a", "g", "g", "e", "d">>
sep == <<"/">>

(***************************************************************************)
(* Python's str operations used by the program.                            *)
(***************************************************************************)
Last(s) == s[Len(s)]

StartsWith(s, t) == Len(t) <= Len(s) /\ SubSeq(s, 1, Len(t)) = t

EndsWith(s, t) == Len(t) <= Len(s) /\ SubSeq(s, Len(s) - Len(t) + 1, Len(s)) = t

\* 1-based index of the last occurrence of character c in s, 0 when there is none
RFind(s, c) ==
    LET hits == {i \in 1..Len(s) : s[i] = c}
    IN  IF hits = {} THEN 0 ELSE CHOOSE i \in hits : \A j \in hits : j <= i

RECURSIVE RStrip(_, _)
RStrip(s, c) ==
    IF s # <<>> /\ Last(s) = c THEN RStrip(SubSeq(s, 1, Len(s) - 1), c) ELSE s

\* 1-based index of the first occurrence of character c in s, 0 when there is none
LFind(s, c) ==
    LET hits == {i \in 1..Len(s) : s[i] = c}
    IN  IF hits = {} THEN 0 ELSE CHOOSE i \in hits : \A j \in hits : i <= j

\* str.split(c): the pieces of s between the occurrences of character c
RECURSIVE Split(_, _)
Split(s, c) ==
    LET i == LFind(s, c)
    IN  IF i = 0 THEN <<s>>
        ELSE <<SubSeq(s, 1, i - 1)>> \o Split(SubSeq(s, i + 1, Len(s)), c)

\* c.join(parts)
RECURSIVE JoinWith(_, _)
JoinWith(parts, c) ==
    IF parts = <<>> THEN <<>>
    ELSE IF Len(parts) = 1 THEN parts[1]
    ELSE parts[1] \o c \o JoinWith(Tail(parts), c)

UpperLetters ==
    << "A", "B", "C", "D", "E", "F", "G", "H", "I", "J", "K", "L", "M",
       "N", "O", "P", "Q", "R", "S", "T", "U", "V", "W", "X", "Y", "Z" >>

LowerLetters ==
    << "a", "b", "c", "d", "e", "f", "g", "h", "i", "j", "k", "l", "m",
       "n", "o", "p", "q", "r", "s", "t", "u", "v", "w", "x", "y", "z" >>

\* str.lower() of one character
LowerChar(c) ==
    IF \E i \in 1..26 : UpperLetters[i] = c
    THEN LowerLetters[CHOOSE i \in 1..26 : UpperLetters[i] = c]
    ELSE c

Lower(s) == [i \in 1..Len(s) |-> LowerChar(s[i])]

\* str(n) for n >= 0
DigitChar(d) ==
    CASE d = 0 -> "0" [] d = 1 -> "1" [] d = 2 -> "2" [] d = 3 -> "3" [] d = 4 -> "4"
      [] d = 5 -> "5" [] d = 6 -> "6" [] d = 7 -> "7" [] d = 8 -> "8" [] d = 9 -> "9"

RECURSIVE Str(_)
Str(n) == IF n < 10 THEN <<DigitChar(n)>> ELSE Str(n \div 10) \o <<DigitChar(n % 10)>>

(***************************************************************************)
(* os.path (posixpath) as the program uses it.                             *)
(***************************************************************************)
IsAllSep(s) == \A i \in 1..Len(s) : s[i] = "/"

\* os.path.split: <<head, tail>>
PathSplit(p) ==
    LET i == RFind(p, "/")
        head == SubSeq(p, 1, i)
        tail == SubSeq(p, i + 1, Len(p))
    IN  << IF head # <<>> /\ ~IsAllSep(head) THEN RStrip(head, "/") ELSE head, tail >>

dirname(p) == PathSplit(p)[1]

basename(p) == PathSplit(p)[2]

\* os.path.join of two components
join(a, b) ==
    IF StartsWith(b, sep) THEN b
    ELSE IF a = <<>> \/ EndsWith(a, sep) THEN a \o b
    ELSE a \o sep \o b

RECURSIVE JoinAll(_, _)
JoinAll(a, parts) == IF parts = <<>> THEN a ELSE JoinAll(join(a, Head(parts)), Tail(parts))

\* os.path.splitext: <<stem, extension>>; leading dots belong to the stem
splitext(p) ==
    LET sepIndex == RFind(p, "/")
        dotIndex == RFind(p, ".")
    IN  IF dotIndex > sepIndex
           /\ \E k \in (sepIndex + 1)..(dotIndex - 1) : p[k] # "."
        THEN << SubSeq(p, 1, dotIndex - 1), SubSeq(p, dotIndex, Len(p)) >>
        ELSE << p, <<>> >>

\* the component list of os.path.normpath
RECURSIVE NormComps(_, _, _)
NormComps(comps, new, initial) ==
    IF comps = <<>> THEN new
    ELSE LET c == Head(comps)
         IN  IF c = <<>> \/ c = <<".">> THEN NormComps(Tail(comps), new, initial)
             ELSE IF c # <<".", ".">>
                     \/ (initial = 0 /\ new = <<>>)
                     \/ (new # <<>> /\ Last(new) = <<".", ".">>)
                  THEN NormComps(Tail(comps), Append(new, c), initial)
             ELSE IF new # <<>>
                  THEN NormComps(Tail(comps), SubSeq(new, 1, Len(new) - 1), initial)
             ELSE NormComps(Tail(comps), new, initial)

normpath(p) ==
    IF p = <<>> THEN <<".">>
    ELSE LET initial == IF ~StartsWith(p, sep) THEN 0
                        ELSE IF StartsWith(p, <<"/", "/">>) /\ ~StartsWith(p, <<"/", "/", "/">>)
                             THEN 2 ELSE 1
             body == JoinWith(NormComps(Split(p, "/"), <<>>, initial), sep)
             res == [i \in 1..initial |-> "/"] \o body
         IN  IF res = <<>> THEN <<".">> ELSE res

NonEmptyComps(p) == SelectSeq(Split(p, "/"), LAMBDA x : x # <<>>)

\* length of the common prefix of two component lists
RECURSIVE CommonLen(_, _)
CommonLen(a, b) ==
    IF a = <<>> \/ b = <<>> \/ Head(a) # Head(b) THEN 0
    ELSE 1 + CommonLen(Tail(a), Tail(b))

\* os.path.relpath of absolute paths
relpath(path, start) ==
    LET start_list == NonEmptyComps(normpath(start))
        path_list == NonEmptyComps(normpath(path))
        i == CommonLen(start_list, path_list)
        rel_list == [k \in 1..(Len(start_list) - i) |-> <<".", ".">>]
                        \o SubSeq(path_list, i + 1, Len(path_list))
    IN  IF rel_list = <<>> THEN <<".">> ELSE JoinAll(Head(rel_list), Tail(rel_list))

\* dict.get(key, default)
Get(map, key, default) == IF key \in DOMAIN map THEN map[key] ELSE default

\* dict[key] = value
Put(map, key, value) == [k \in DOMAIN map \cup {key} |-> IF k = key THEN value ELSE map[k]]

(***************************************************************************)
(* update_workout_xml: the XML field patcher.                              *)
(***************************************************************************)
ValueError == [kind |-> "ValueError"]

\* Element.find(tag): index of the first child with that tag, 0 for None
Find(children, tag) ==
    LET hits == {i \in 1..Len(children) : children[i].tag = tag}
    IN  IF hits = {} THEN 0 ELSE CHOOSE i \in hits : \A j \in hits : i <= j

\* the children after "find, and ET.SubElement if None"
FindOrCreate(children, tag) ==
    IF Find(children, tag) = 0 THEN Append(children, Elem(tag, None)) ELSE children

\* (element.text or "")
TextOrEmpty(t) == IF t = None THEN <<>> ELSE t

\* the tag put right after the name, without the space
NameTextNoSpace(old, gid) == TextOrEmpty(old) \o <<"[">> \o gid \o <<"]">>

NameText(old, gid) == TextOrEmpty(old) \o <<" ", "[">> \o gid \o <<"]">>

\* the label put after the description, as the tag is put after the name
DescriptionTextAppended(old, fdir) == TextOrEmpty(old) \o <<":", " ", " ">> \o fdir

DescriptionText(old, fdir) == fdir \o <<":", " ", " ">> \o TextOrEmpty(old)

update_workout_xml(content, gid, fdir) ==
    IF content.kind # "doc" THEN ValueError
    ELSE LET c1 == FindOrCreate(content.children, s_name)
             i == Find(c1, s_name)
             c2 == [c1 EXCEPT ![i].text = NameText(@, gid)]
             c3 == FindOrCreate(c2, s_description)
             j == Find(c3, s_description)
             c4 == [c3 EXCEPT ![j].text = DescriptionText(@, fdir)]
         IN  Doc(content.tag, c4)

(***************************************************************************)
(* The input the walk can meet.                                            *)
(***************************************************************************)
Roots == { <<"/", "p", "/", "r">> }

DirNames == { <<"G">>, <<"H">> }

Doc1 == Doc(s_workout_file, << Elem(s_author, None), Elem(s_name, s_Ride),
                               Elem(s_workout, None) >>)

Doc2 == Doc(s_workout_file, << Elem(s_description, s_Easy), Elem(s_name, None) >>)

f_a_zwo == <<"a", ".", "z", "w", "o">>
f_b_XML == <<"b", ".", "X", "M", "L">>
f_c_txt == <<"c", ".", "t", "x", "t">>
f_dot_xml == <<".", "x", "m", "l">>

File(name, content) == [name |-> name, content |-> content]

\* a file of the input tree: its name and what it holds
FileCatalogue ==
    { File(f_a_zwo, Doc1), File(f_b_XML, Doc2), File(f_b_XML, Malformed),
      File(f_c_txt, Malformed), File(f_dot_xml, Doc1) }

Directory == [kind |-> "dir"]

\* a symbolic link to a directory: os.walk lists it with the sub-directories
DirLink == [kind |-> "link"]

\* a sub-directory as a directory entry; H is a directory or a link to one
DirCatalogue == { File(d, Directory) : d \in DirNames } \cup { File(<<"H">>, DirLink) }

\* the listings of the entries of S, in every order, no two with one name
Listings(S) ==
    { l \in UNION { [1..k -> S] : k \in 0..Cardinality({x.name : x \in S}) } :
        \A i, j \in 1..Len(l) : i # j => l[i].name # l[j].name }

\* the sub-directories os.walk can give for one directory
AllDirListings == Listings(DirCatalogue)

AllFileListings == Listings(FileCatalogue)

DirListings(n) == { l \in AllDirListings : Len(l) <= n }

FileListings(n) == { l \in AllFileListings : Len(l) <= n }

EmptyMap == [k \in {} |-> 0]

Tree(dirs, files) == [dirs |-> dirs, files |-> files]

\* f"{directory_part}_[{group_tag}]"
Tagged(directory_part, group_tag) == directory_part \o <<"_", "[">> \o group_tag \o <<"]">>

\* what can be at the place of the output tree before the run: nothing; the
\* output root, empty; a regular file with the name of the output root; a
\* regular file with the name of a tagged directory; the output of an earlier
\* run; a directory with the name of an output file
ExistingTreesAt(out) ==
    { Tree({}, {}),
      Tree({out}, {}),
      Tree({}, {out}),
      Tree({out}, {join(out, Tagged(<<"G">>, <<"1">>))}),
      Tree({out, join(out, Tagged(<<"G">>, <<"1">>))}, {join(out, f_a_zwo)}),
      Tree({out, join(out, f_a_zwo)}, {}) }

(***************************************************************************)
(* main(): paths of the output tree.                                       *)
(***************************************************************************)
OutputRootOf(root) ==
    LET sp == PathSplit(root)
    IN  join(sp[1], sp[2] \o s_tagged)

output_tagged_root_dir == OutputRootOf(input_workout_root_dir)

ExistingTrees == UNION { ExistingTreesAt(OutputRootOf(r)) : r \in Roots }

\* os.path.isdir: a directory of the output tree, or one on the way to the input root
IsDir(dirs, root, p) == p \in dirs \/ StartsWith(root, p)

\* os.path.exists
Exists(dirs, files, root, p) == IsDir(dirs, root, p) \/ p \in files

\* a regular file stands where path needs a directory
UnderFile(files, path) == \E a \in files : StartsWith(path, a \o sep)

Outcome(dirs, error) == [dirs |-> dirs, error |-> error]

\* os.mkdir(name): the directories afterwards, and the OSError raised or "ok"
mkdir(dirs, files, root, name) ==
    IF Exists(dirs, files, root, name) THEN Outcome(dirs, "FileExistsError")
    ELSE IF UnderFile(files, name) THEN Outcome(dirs, "NotADirectoryError")
    ELSE IF ~IsDir(dirs, root, dirname(name)) THEN Outcome(dirs, "FileNotFoundError")
    ELSE Outcome(dirs \cup {name}, "ok")

\* os.makedirs: "head, tail = path.split(name)", once more when there is no tail
MakedirsSplit(sp) == IF sp[2] = <<>> THEN PathSplit(sp[1]) ELSE sp

\* os.makedirs: the OSError of os.mkdir is passed over when name is a directory
MkdirExistOk(made, root, name) ==
    IF made.error # "ok" /\ IsDir(made.dirs, root, name) THEN Outcome(made.dirs, "ok") ELSE made

\* os.makedirs: os.mkdir(name), once the head is there
MakedirsLeaf(up, files, root, name) ==
    IF up.error \notin {"ok", "FileExistsError"} THEN up
    ELSE MkdirExistOk(mkdir(up.dirs, files, root, name), root, name)

RECURSIVE makedirs(_, _, _, _)
\* os.makedirs: the head is made first when it does not exist
MakedirsHead(dirs, files, root, sp) ==
    IF sp[1] # <<>> /\ sp[2] # <<>> /\ ~Exists(dirs, files, root, sp[1])
    THEN makedirs(dirs, files, root, sp[1]) ELSE Outcome(dirs, "ok")

\* os.makedirs(name, exist_ok=True)
makedirs(dirs, files, root, name) ==
    MakedirsLeaf(MakedirsHead(dirs, files, root, MakedirsSplit(PathSplit(name))),
                 files, root, name)

\* make_path: "except OSError", raised again unless its errno is EEXIST
ExceptExists(made) ==
    IF made.error = "FileExistsError" THEN Outcome(made.dirs, "ok") ELSE made

make_path(dirs, files, root, path) == ExceptExists(makedirs(dirs, files, root, path))

\* open(path, "w"): the OSError raised, or "ok"
OpenForWriting(dirs, files, root, path) ==
    IF IsDir(dirs, root, path) THEN "IsADirectoryError"
    ELSE IF UnderFile(files, path) THEN "NotADirectoryError"
    ELSE IF ~IsDir(dirs, root, dirname(path)) THEN "FileNotFoundError"
    ELSE "ok"

\* f"{directory_part}_[{group_tag}]" for every directory part below the root
RECURSIVE TaggedParts(_, _, _)
TaggedParts(parts, path_accumulator, idmap) ==
    IF parts = <<>> THEN <<>>
    ELSE LET acc == join(path_accumulator, Head(parts))
             group_tag == Get(idmap, acc, <<>>)
         IN  << Tagged(Head(parts), group_tag) >> \o TaggedParts(Tail(parts), acc, idmap)

OutputDirectory(input_file_path, idmap) ==
    LET relative_input_path == relpath(input_file_path, input_workout_root_dir)
        relative_input_dir == dirname(relative_input_path)
    IN  IF relative_input_dir = <<>> THEN output_tagged_root_dir
        ELSE JoinAll(output_tagged_root_dir,
                     TaggedParts(Split(relative_input_dir, "/"),
                                 input_workout_root_dir, idmap))

\* 'File:' + parent_base_dir_name + '/' + base_dir_name + '/' + file_stem
OriginLabel(directory, file_stem) ==
    LET normalized_current_dir == normpath(directory)
        base_dir_name == basename(normalized_current_dir)
        parent_dir_path == normpath(dirname(normalized_current_dir))
        parent_base_dir_name == basename(parent_dir_path)
    IN  s_File \o parent_base_dir_name \o sep \o base_dir_name \o sep \o file_stem

IsWorkoutExtension(file_extension) == Lower(file_extension) \in {s_zwo, s_xml}

(***************************************************************************)
(* main(): the hierarchical identifiers.                                   *)
(***************************************************************************)
\* the child number alone, whatever the parent
NewGroupIdNoParent(parent_group_id, next_child_number) == Str(next_child_number)

NewGroupId(parent_group_id, next_child_number) ==
    IF parent_group_id # <<>>
    THEN parent_group_id \o <<"-">> \o Str(next_child_number)
    ELSE Str(next_child_number)

\* the directory id map after the walk has reached directory
AssignId(idmap, counters, directory) ==
    LET parent_directory == dirname(directory)
        parent_group_id == Get(idmap, parent_directory, <<>>)
        next_child_number == Get(counters, parent_directory, 1)
    IN  IF directory = input_workout_root_dir THEN idmap
        ELSE Put(idmap, directory, NewGroupId(parent_group_id, next_child_number))

\* the parent's counter left as it is
AssignCountersNoIncrement(counters, directory) == Put(counters, directory, 1)

\* the child counter map after the walk has reached directory
AssignCounters(counters, directory) ==
    LET parent_directory == dirname(directory)
        next_child_number == Get(counters, parent_directory, 1)
        c1 == IF directory = input_workout_root_dir THEN counters
              ELSE Put(counters, parent_directory, next_child_number + 1)
    IN  Put(c1, directory, 1)

\* the root counted as a group
GroupCountWithRoot(idmap) == Cardinality(DOMAIN idmap)

\* len(directory_id_map)-1, the groups of the summary line
GroupCount(idmap) == Cardinality(DOMAIN idmap) - 1

Reverse(s) == [i \in 1..Len(s) |-> s[Len(s) + 1 - i]]

\* the names os.walk gives for a listing
Names(entries) == [i \in 1..Len(entries) |-> entries[i].name]

\* the paths of the entries of a listing of directory top
Paths(top, entries) == { join(top, entries[i].name) : i \in 1..Len(entries) }

\* the sub-directories os.walk walks into: with followlinks=False, not the links
Walked(subdirectories) == SelectSeq(subdirectories, LAMBDA e : e.content # DirLink)

Linked(subdirectories) == SelectSeq(subdirectories, LAMBDA e : e.content = DirLink)

\* os.walk(topdown=True): the stack after top was popped and its sub-directories pushed
WalkPush(rest, top, subdirectories) ==
    rest \o Reverse([i \in 1..Len(Walked(subdirectories)) |->
                        join(top, Walked(subdirectories)[i].name)])

(***************************************************************************)
(* main(), step by step.                                                   *)
(***************************************************************************)
EntriesLeft ==
    MaxEntries - (Cardinality(fsDirs) - 1) - Cardinality(fsLinks) - Cardinality(DOMAIN fsFiles)

\* an I/O failure of the machine, one the state of the two trees does not explain
FaultsLeft == MaxFaults - faults

\* what fails while one file is handled: nothing, or, while faults are left, the
\* read of the input file, a mkdir of make_path, the open of the output file,
\* or the write into the file opened
Fates == IF FaultsLeft > 0 THEN {"ok", "read", "mkdir", "open", "write"} ELSE {"ok"}

\* os.makedirs stopped by a mkdir that fails: the directories it had made
\* before, none when the mkdir refused is the first
PartialDirs(dirs, made) ==
    {dirs} \cup { dirs \cup {d \in made \ dirs : Len(d) < Len(x)} : x \in made \ dirs }

\* the position after one file: the next file, or the next directory of the walk
AfterFile(rest) == IF rest = <<>> THEN "walk" ELSE "files"

Init ==
    /\ pc = "select"
    /\ input_workout_root_dir = None
    /\ stack = <<>>
    /\ current_directory = <<>>
    /\ filenames = <<>>
    /\ directory_id_map = EmptyMap
    /\ child_directory_counter_map = EmptyMap
    /\ updated_xml = Unbound
    /\ processed_file_count = 0
    /\ existing \in ExistingTrees
    /\ outDirs = existing.dirs
    /\ outFiles = [f \in existing.files |-> OldFile]
    /\ stderr = {}
    /\ summary = None
    /\ fsDirs = {}
    /\ fsLinks = {}
    /\ unlisted = {}
    /\ faults = 0
    /\ fsFiles = EmptyMap
    /\ attempts = EmptyMap
    /\ idWrites = <<>>
    /\ writtenFor = EmptyMap
    /\ xml_content = Malformed
    /\ group_id = <<>>
    /\ file_dir = <<>>
    /\ patched = Unbound

\* the dialog is cancelled: the message and sys.exit(1)
SelectNone ==
    /\ pc = "select"
    /\ pc' = "exit1"
    /\ stderr' = stderr \cup { <<"no directory", <<>>, "exit">> }
    /\ UNCHANGED <<input_workout_root_dir, stack, current_directory, filenames,
                   directory_id_map, child_directory_counter_map, updated_xml,
                   processed_file_count, outDirs, outFiles, existing, summary,
                   fsDirs, fsLinks, unlisted, faults, fsFiles, attempts, idWrites,
                   writtenFor, patchVars>>

\* a directory is selected: the output root is made and the maps are set up,
\* unless make_path raises an OSError, which nothing catches
SelectDir ==
    /\ pc = "select"
    /\ \E selected \in Roots, fate \in Fates \ {"read", "open", "write"} :
       \E made \in { make_path(outDirs, DOMAIN outFiles, selected, OutputRootOf(selected)) } :
       \E refused \in { fate = "mkdir" /\ made.error = "ok" } :
          /\ input_workout_root_dir' = selected
          /\ faults' = IF refused THEN faults + 1 ELSE faults
          /\ IF made.error # "ok" \/ refused
             THEN /\ pc' = "oserror"
                  /\ outDirs' \in (IF refused THEN PartialDirs(outDirs, made.dirs)
                                               ELSE {made.dirs})
                  /\ UNCHANGED <<directory_id_map, stack, fsDirs>>
             ELSE /\ outDirs' = made.dirs
                  /\ directory_id_map' = [k \in {selected} |-> <<>>]
                  /\ stack' = <<selected>>
                  /\ fsDirs' = {selected}
                  /\ pc' = "walk"
    /\ child_directory_counter_map' = EmptyMap
    /\ UNCHANGED <<current_directory, filenames, updated_xml, processed_file_count,
                   outFiles, existing, stderr, summary, fsLinks, unlisted, fsFiles,
                   attempts, idWrites, writtenFor, patchVars>>

\* os.walk yields the next directory with its listing; the directory gets its id
VisitDir ==
    /\ pc = "walk"
    /\ stack # <<>>
    /\ LET top == Last(stack)
       IN  \E subdirectories \in DirListings(EntriesLeft),
              files \in FileListings(EntriesLeft) :
              /\ Len(subdirectories) + Len(files) <= EntriesLeft
              /\ stack' = WalkPush(SubSeq(stack, 1, Len(stack) - 1), top, subdirectories)
              /\ current_directory' = top
              /\ filenames' = Names(files)
              /\ fsDirs' = fsDirs \cup Paths(top, Walked(subdirectories))
              /\ fsLinks' = fsLinks \cup Paths(top, Linked(subdirectories))
              /\ fsFiles' = [f \in DOMAIN fsFiles
                                    \cup { join(top, files[i].name) : i \in 1..Len(files) } |->
                               IF f \in DOMAIN fsFiles THEN fsFiles[f]
                               ELSE LET i == CHOOSE i \in 1..Len(files) :
                                                 join(top, files[i].name) = f
                                    IN  files[i].content]
              /\ directory_id_map' = AssignId(directory_id_map, child_directory_counter_map, top)
              /\ child_directory_counter_map' = AssignCounters(child_directory_counter_map, top)
              /\ idWrites' = IF top = input_workout_root_dir THEN idWrites
                             ELSE Append(idWrites,
                                         [directory |-> top,
                                          id |-> directory_id_map'[top],
                                          parent_known |-> dirname(top) \in DOMAIN directory_id_map,
                                          counter_known |-> dirname(top) \in
                                                              DOMAIN child_directory_counter_map])
              /\ pc' = AfterFile(files)
    /\ UNCHANGED <<input_workout_root_dir, updated_xml, processed_file_count, outDirs,
                   outFiles, existing, stderr, summary, unlisted, faults, attempts,
                   writtenFor, patchVars>>

\* os.walk cannot list the next directory (scandir raises OSError): with no
\* onerror the error is dropped and the directory is not yielded
SkipDir ==
    /\ pc = "walk"
    /\ stack # <<>>
    /\ FaultsLeft > 0
    /\ stack' = SubSeq(stack, 1, Len(stack) - 1)
    /\ unlisted' = unlisted \cup {Last(stack)}
    /\ faults' = faults + 1
    /\ UNCHANGED <<pc, input_workout_root_dir, current_directory, filenames,
                   directory_id_map, child_directory_counter_map, updated_xml,
                   processed_file_count, outDirs, outFiles, existing, stderr, summary,
                   fsDirs, fsLinks, fsFiles, attempts, idWrites, writtenFor, patchVars>>

\* one iteration of "for filename in filenames"
ProcessFile ==
    /\ pc = "files"
    /\ filenames # <<>>
    /\ \E fate \in Fates,
          filename \in { Head(filenames) },
          input_file_path \in { join(current_directory, Head(filenames)) } :
       \E recognized \in { IsWorkoutExtension(splitext(filename)[2]) },
          result \in { update_workout_xml(fsFiles[input_file_path],
                                          Get(directory_id_map, current_directory, <<>>),
                                          OriginLabel(current_directory,
                                                      splitext(filename)[1])) } :
       \E unread \in { recognized /\ fate = "read" } :
       \E skipped \in { recognized /\ (unread \/ result.kind = "ValueError") } :
       \E new_xml \in { IF recognized /\ ~skipped THEN result ELSE updated_xml },
          output_directory \in { OutputDirectory(input_file_path, directory_id_map) } :
       \E made \in { make_path(outDirs, DOMAIN outFiles, input_workout_root_dir,
                               output_directory) },
          output_file_path \in { join(output_directory, filename) } :
       \E refused \in { ~skipped /\ fate = "mkdir" /\ made.error = "ok" },
          opened \in { OpenForWriting(made.dirs, DOMAIN outFiles, input_workout_root_dir,
                                      output_file_path) } :
       \E raised \in { ~skipped /\ (made.error # "ok" \/ refused) } :
       \E unopened \in { ~skipped /\ ~raised /\ opened = "ok" /\ fate = "open" },
          unwritten \in { ~skipped /\ ~raised /\ opened = "ok" /\ fate = "write"
                                   /\ new_xml.kind # "unbound" } :
          /\ attempts' = Put(attempts, input_file_path, Get(attempts, input_file_path, 0) + 1)
          /\ filenames' = Tail(filenames)
          /\ updated_xml' = new_xml
          /\ faults' = IF unread \/ refused \/ unopened \/ unwritten
                       THEN faults + 1 ELSE faults
          /\ IF skipped
             THEN \* except (IOError, ValueError): print, continue
                  /\ stderr' = stderr \cup { <<"processing", input_file_path,
                                                IF unread THEN "IOError" ELSE "ValueError">> }
                  /\ pc' = AfterFile(Tail(filenames))
                  /\ UNCHANGED <<outDirs, outFiles, processed_file_count, writtenFor>>
             ELSE IF raised
             THEN \* make_path raises the OSError again: nothing catches it
                  /\ pc' = "oserror"
                  /\ outDirs' \in (IF refused THEN PartialDirs(outDirs, made.dirs)
                                               ELSE {made.dirs})
                  /\ UNCHANGED <<outFiles, stderr, processed_file_count, writtenFor>>
             ELSE /\ outDirs' = made.dirs
                  /\ IF opened # "ok" \/ unopened
                     THEN \* open() raises IOError: print
                          /\ stderr' = stderr \cup
                                         { <<"writing", output_file_path,
                                             IF unopened THEN "IOError" ELSE opened>> }
                          /\ pc' = AfterFile(Tail(filenames))
                          /\ UNCHANGED <<outFiles, processed_file_count, writtenFor>>
                     ELSE IF new_xml.kind = "unbound"
                     THEN \* the file is opened, then updated_xml raises UnboundLocalError
                          /\ outFiles' = Put(outFiles, output_file_path, EmptyFile)
                          /\ writtenFor' = Put(writtenFor, input_file_path, output_file_path)
                          /\ pc' = "crashed"
                          /\ UNCHANGED <<stderr, processed_file_count>>
                     ELSE IF unwritten
                     THEN \* the file is opened, and emptied; the write raises IOError: print
                          /\ outFiles' = Put(outFiles, output_file_path, EmptyFile)
                          /\ writtenFor' = Put(writtenFor, input_file_path, output_file_path)
                          /\ stderr' = stderr \cup { <<"writing", output_file_path, "IOError">> }
                          /\ pc' = AfterFile(Tail(filenames))
                          /\ UNCHANGED processed_file_count
                     ELSE /\ outFiles' = Put(outFiles, output_file_path, new_xml)
                          /\ writtenFor' = Put(writtenFor, input_file_path, output_file_path)
                          /\ processed_file_count' = processed_file_count + 1
                          /\ pc' = AfterFile(Tail(filenames))
                          /\ UNCHANGED stderr
    /\ UNCHANGED <<input_workout_root_dir, stack, current_directory, directory_id_map,
                   child_directory_counter_map, existing, summary, fsDirs, fsLinks,
                   unlisted, fsFiles, idWrites, patchVars>>

\* the walk is over: the summary line
Finish ==
    /\ pc = "walk"
    /\ stack = <<>>
    /\ summary' = << GroupCount(directory_id_map), processed_file_count >>
    /\ pc' = "done"
    /\ UNCHANGED <<input_workout_root_dir, stack, current_directory, filenames,
                   directory_id_map, child_directory_counter_map, updated_xml,
                   processed_file_count, outDirs, outFiles, existing, stderr,
                   fsDirs, fsLinks, unlisted, faults, fsFiles, attempts, idWrites,
                   writtenFor, patchVars>>

(***************************************************************************)
(* update_workout_xml on its own: a call on any document, tag and label.   *)
(***************************************************************************)
PatchElems == { Elem(t, x) : t \in {s_name, s_description, s_author}, x \in {None, s_Ride} }

PatchDocs == { Doc(s_workout_file, c) :
                 c \in UNION { [1..k -> PatchElems] : k \in 0..MaxChildren } }

PatchGroupIds == { <<>>, <<"1">>, <<"1", "-", "2">> }

PatchLabels == { s_File \o <<"p", "/", "r", "/", "a">>, s_File \o <<"r", "/", "G", "/", "b">> }

InitPatch ==
    /\ pc = "select"
    /\ input_workout_root_dir = None
    /\ stack = <<>>
    /\ current_directory = <<>>
    /\ filenames = <<>>
    /\ directory_id_map = EmptyMap
    /\ child_directory_counter_map = EmptyMap
    /\ updated_xml = Unbound
    /\ processed_file_count = 0
    /\ existing = Tree({}, {})
    /\ outDirs = {}
    /\ outFiles = EmptyMap
    /\ stderr = {}
    /\ summary = None
    /\ fsDirs = {}
    /\ fsLinks = {}
    /\ unlisted = {}
    /\ faults = 0
    /\ fsFiles = EmptyMap
    /\ attempts = EmptyMap
    /\ idWrites = <<>>
    /\ writtenFor = EmptyMap
    /\ xml_content \in PatchDocs \cup {Malformed}
    /\ group_id \in PatchGroupIds
    /\ file_dir \in PatchLabels
    /\ patched = Unbound

\* one call of update_workout_xml(xml_content, group_id, file_dir)
PatchStep ==
    /\ patched = Unbound
    /\ patched' = update_workout_xml(xml_content, group_id, file_dir)
    /\ UNCHANGED <<walkVars, xml_content, group_id, file_dir>>

NextPatch == PatchStep

SpecPatch == InitPatch /\ [][NextPatch]_vars

Next == SelectNone \/ SelectDir \/ VisitDir \/ SkipDir \/ ProcessFile \/ Finish

Spec == Init /\ [][Next]_vars

(***************************************************************************)
(* What the claims speak of.                                               *)
(***************************************************************************)
\* the walk has begun
Started == fsDirs # {}

Ended == pc \in {"done", "crashed", "oserror"}

OSErrors == {"IOError", "NotADirectoryError", "IsADirectoryError", "FileNotFoundError"}

\* the file's extension is .zwo or .xml, whatever the case of its letters
Recognized(f) == Lower(splitext(basename(f))[2]) \in {s_zwo, s_xml}

WellFormed(f) == fsFiles[f].kind = "doc"

InputFilesOf(d) == {f \in DOMAIN fsFiles : dirname(f) = d}

SubDirsOf(d) == {c \in fsDirs : c # d /\ dirname(c) = d}

\* the directories the traversal has listed or has still to list
Listable == fsDirs \ unlisted

\* the tagged mirror of input directory d, from the identifiers of d and its ancestors
RECURSIVE MirrorOf(_)
MirrorOf(d) ==
    IF d = input_workout_root_dir \/ Len(d) <= Len(input_workout_root_dir)
    THEN output_tagged_root_dir
    ELSE MirrorOf(dirname(d)) \o sep \o basename(d) \o <<"_", "[">>
             \o Get(directory_id_map, d, <<"?">>) \o <<"]">>

MirrorFileOf(f) == MirrorOf(dirname(f)) \o sep \o basename(f)

\* the directories from d up to, and without, the input root
RECURSIVE PathDirs(_)
PathDirs(d) ==
    IF d = input_workout_root_dir \/ Len(d) <= Len(input_workout_root_dir) THEN {}
    ELSE {d} \cup PathDirs(dirname(d))

\* the run ended in make_path when it made the output directory of f: f was
\* taken, nothing was printed about it and no output file was opened for it
MakePathFailed(f) ==
    /\ pc = "oserror"
    /\ Get(attempts, f, 0) = 1
    /\ f \notin DOMAIN writtenFor
    /\ \A e \in stderr : e[2] # f /\ e[2] # MirrorFileOf(f)

\* a read of f, the making of its output directory or a write of its output
\* file failed
IOFailed(f) ==
    \/ \E e \in stderr : e[3] \in OSErrors /\ (e[2] = f \/ e[2] = MirrorFileOf(f))
    \/ MakePathFailed(f)

\* the output file of f was opened and the write into it failed
WriteFailed(f) ==
    \E e \in stderr : e[1] = "writing" /\ e[2] = writtenFor[f]

\* no listing, no read, no write and no making of a directory has failed so far
NoIOFailure == faults = 0 /\ pc # "oserror" /\ \A e \in stderr : e[3] \notin OSErrors

ParseErrorReported(f) ==
    \E e \in stderr : e[1] = "processing" /\ e[2] = f /\ e[3] = "ValueError"

TextOf(children, tag) ==
    LET i == Find(children, tag)
    IN  IF i = 0 \/ children[i].text = None THEN <<>> ELSE children[i].text

Bracketed(id) == <<" ", "[">> \o id \o <<"]">>

\* the number of earlier assignments to directories with the parent of assignment i
EarlierSiblings(i) ==
    Cardinality({j \in 1..(i - 1) :
                    dirname(idWrites[j].directory) = dirname(idWrites[i].directory)})

(***************************************************************************)
(* C1: a file whose extension is neither .zwo nor .xml is never written    *)
(* into the output tree and never counted: every output file that this run *)
(* has written is the mirror of a recognized input file, and the count of   *)
(* files is the number of recognized files written, a file whose write     *)
(* failed after it was opened not being one.                               *)
(***************************************************************************)
C1_OnlyRecognizedWritten ==
    /\ \A f \in DOMAIN writtenFor : Recognized(f)
    /\ \A o \in DOMAIN outFiles :
          outFiles[o] # OldFile =>
             \E f \in DOMAIN fsFiles : Recognized(f) /\ o = MirrorFileOf(f)
    /\ processed_file_count
          = Cardinality({f \in DOMAIN writtenFor : Recognized(f) /\ ~WriteFailed(f)})

(***************************************************************************)
(* C2: once a directory is selected none of the conditions met while       *)
(* handling one file (an unrecognized extension, a failed read, a failed   *)
(* parse, a failed write) aborts the run: no exception of the file loop    *)
(* ends it, no file is attempted twice, and at the summary every file of   *)
(* every directory was attempted exactly once.  The failure to make a      *)
(* directory, which ends the run with an OSError, is not among them.       *)
(***************************************************************************)
C2_RunNeverAborts ==
    /\ pc # "crashed"
    /\ \A f \in DOMAIN attempts : attempts[f] = 1
    /\ pc = "done" =>
          /\ summary # None
          /\ \A f \in DOMAIN fsFiles : Get(attempts, f, 0) = 1

(***************************************************************************)
(* C3: an entry of the identifier map is written once and keeps the value  *)
(* written; no two directories have the same identifier, the root's being  *)
(* the empty string.                                                       *)
(***************************************************************************)
C3_WriteOnceUnique ==
    /\ Started => /\ input_workout_root_dir \in DOMAIN directory_id_map
                  /\ directory_id_map[input_workout_root_dir] = <<>>
    /\ \A d \in DOMAIN directory_id_map :
          Cardinality({i \in 1..Len(idWrites) : idWrites[i].directory = d})
              = IF d = input_workout_root_dir THEN 0 ELSE 1
    /\ \A i \in 1..Len(idWrites) :
          /\ idWrites[i].directory \in DOMAIN directory_id_map
          /\ directory_id_map[idWrites[i].directory] = idWrites[i].id
    /\ \A d1, d2 \in DOMAIN directory_id_map :
          d1 # d2 => directory_id_map[d1] # directory_id_map[d2]

\* C3 as claimed: at the end of the traversal every directory reachable from
\* the root has its entry in the identifier map, written once and unique
C3_EveryDirectoryIdentified ==
    /\ pc = "done" => DOMAIN directory_id_map = fsDirs
    /\ C3_WriteOnceUnique

\* C3 amended: at the end of the traversal every directory the traversal has
\* listed, and the root, has its entry in the identifier map, and no other
\* path has one; a directory that could not be listed, like a symbolic link
\* to a directory, is passed over.  An entry is written once and is unique.
C3_IdentifierMap ==
    /\ pc = "done" => DOMAIN directory_id_map = Listable \cup {input_workout_root_dir}
    /\ C3_WriteOnceUnique

C3_Witness ==
    /\ pc = "done"
    /\ Cardinality(fsDirs) >= 4
    /\ \E d \in Listable : directory_id_map[d] = <<"1", "-", "1">>
    /\ \E u \in unlisted : u # input_workout_root_dir

(***************************************************************************)
(* C4: when a directory below the root gets its identifier its parent's    *)
(* identifier and counter are already recorded; the identifier is the      *)
(* parent's, a dash and k (just k under the root), k being the parent's    *)
(* counter: 1 for the first child visited, 2 for the second, and so on.    *)
(***************************************************************************)
C4_ChildIdentifier ==
    /\ \A i \in 1..Len(idWrites) :
          LET w == idWrites[i]
              parent == dirname(w.directory)
              k == 1 + EarlierSiblings(i)
          IN  /\ w.parent_known
              /\ w.counter_known
              /\ parent \in DOMAIN directory_id_map
              /\ w.id = IF directory_id_map[parent] # <<>>
                        THEN directory_id_map[parent] \o <<"-">> \o Str(k)
                        ELSE Str(k)
    /\ \A d \in DOMAIN child_directory_counter_map :
          child_directory_counter_map[d]
              = 1 + Cardinality({i \in 1..Len(idWrites) : dirname(idWrites[i].directory) = d})

C4_Witness ==
    \E i, j \in 1..Len(idWrites) :
       /\ i < j
       /\ dirname(idWrites[i].directory) = dirname(idWrites[j].directory)
       /\ dirname(idWrites[i].directory) # input_workout_root_dir
       /\ idWrites[j].id = <<"1", "-", "2">>

(***************************************************************************)
(* C5: a file written for an input file in d1/.../dn is written under its  *)
(* own name in output_root/d1_[id(d1)]/.../dn_[id(d1/.../dn)]; every tag   *)
(* is that directory's identifier and is not empty; for n >= 1 the tag of  *)
(* dn is the group tag appended to the name field of the document written; *)
(* a file of the root is written in output_root itself.  Stated of the     *)
(* runs in which no read or write fails.                                   *)
(***************************************************************************)
C5_TaggedOutputPath ==
    \A f \in DOMAIN writtenFor :
       NoIOFailure =>
       /\ writtenFor[f] = MirrorFileOf(f)
       /\ \A a \in PathDirs(dirname(f)) :
             a \in DOMAIN directory_id_map /\ directory_id_map[a] # <<>>
       /\ (dirname(f) # input_workout_root_dir /\ outFiles[writtenFor[f]].kind = "doc") =>
                EndsWith(TextOf(outFiles[writtenFor[f]].children, s_name),
                         Bracketed(directory_id_map[dirname(f)]))

(***************************************************************************)
(* C6: for a recognized file that is not well-formed XML a parse error is  *)
(* reported and no output file is written, and when the run has handled    *)
(* that file and ended, no read or write having failed, every well-formed  *)
(* recognized file of the same directory is written with its directory's   *)
(* tag and counted.                                                        *)
(***************************************************************************)
C6_MalformedSkipped ==
    \A m \in DOMAIN fsFiles :
       (Recognized(m) /\ ~WellFormed(m)) =>
          /\ m \notin DOMAIN writtenFor
          /\ MirrorFileOf(m) \notin DOMAIN outFiles
          /\ (Get(attempts, m, 0) = 1 /\ ~IOFailed(m)) => ParseErrorReported(m)
          /\ (Ended /\ NoIOFailure /\ Get(attempts, m, 0) = 1) =>
                \A g \in InputFilesOf(dirname(m)) :
                   (Recognized(g) /\ WellFormed(g)) =>
                      /\ g \in DOMAIN writtenFor
                      /\ outFiles[writtenFor[g]].kind = "doc"
                      /\ EndsWith(TextOf(outFiles[writtenFor[g]].children, s_name),
                                  Bracketed(directory_id_map[dirname(g)]))
                      /\ processed_file_count >= 1

(***************************************************************************)
(* C7: the group count of the summary is the size of the identifier map    *)
(* less one, whatever files the directories hold: a directory without      *)
(* files has its identifier, has advanced its parent's counter and is      *)
(* counted.  The directories counted are given by the parameter.           *)
(***************************************************************************)
C7_Groups(directories) ==
    pc = "done" =>
       /\ summary[1] = Cardinality(DOMAIN directory_id_map) - 1
       /\ summary[1] = Cardinality(directories \ {input_workout_root_dir})
       /\ \A d \in directories :
             /\ d \in DOMAIN directory_id_map
             /\ d \in DOMAIN child_directory_counter_map
             /\ child_directory_counter_map[d]
                   = 1 + Cardinality(SubDirsOf(d) \cap directories)

\* C7 as claimed: the group count is the number of directories below the root
\* in the input tree
C7_GroupsAreDirectories == C7_Groups(fsDirs)

\* C7 amended: the group count is the number of directories below the root
\* that the traversal has listed; a directory that could not be listed, like
\* a symbolic link to a directory, has no identifier, has not advanced its
\* parent's counter and is not counted
C7_GroupCount == C7_Groups(Listable)

C7_Witness ==
    /\ pc = "done"
    /\ summary[1] = 1
    /\ \E d, u \in SubDirsOf(input_workout_root_dir) :
          /\ u \in unlisted
          /\ d \in Listable
          /\ directory_id_map[d] = <<"1">>
          /\ InputFilesOf(d) = {}
          /\ SubDirsOf(d) = {}
    /\ \E f \in InputFilesOf(input_workout_root_dir) : f \in DOMAIN writtenFor

(***************************************************************************)
(* C8: output directories are made only when a file is to be written into  *)
(* them: a tagged directory that was not there before the run exists in    *)
(* the output tree only if a patched workout file was to be written into   *)
(* it or below it.  Stated of the runs in which no read or write fails.    *)
(***************************************************************************)
C8_LazyOutputDirs ==
    \A d \in fsDirs \ {input_workout_root_dir} :
       (NoIOFailure /\ d \in DOMAIN directory_id_map
                    /\ MirrorOf(d) \in outDirs \ existing.dirs) =>
          \E f \in DOMAIN fsFiles :
             /\ StartsWith(f, d \o sep)
             /\ Recognized(f)
             /\ WellFormed(f)

(***************************************************************************)
(* C9: update_workout_xml on a well-formed document gives a document whose *)
(* name text is the old name text (empty if there was none) followed by    *)
(* " [" g "]" and whose description text is o, a colon, two spaces and the *)
(* old description text; a missing name or description is created and      *)
(* every other child is kept as it was.                                    *)
(***************************************************************************)
C9_PatchContract ==
    (patched.kind # "unbound" /\ xml_content.kind = "doc") =>
       LET old == xml_content.children
           new == patched.children
           iN == Find(old, s_name)
           iD == Find(old, s_description)
           created == (IF iN = 0 THEN 1 ELSE 0) + (IF iD = 0 THEN 1 ELSE 0)
       IN  /\ patched.kind = "doc"
           /\ patched.tag = xml_content.tag
           /\ Find(new, s_name) # 0
           /\ Find(new, s_description) # 0
           /\ iN # 0 => Find(new, s_name) = iN
           /\ iD # 0 => Find(new, s_description) = iD
           /\ new[Find(new, s_name)].text = TextOf(old, s_name) \o Bracketed(group_id)
           /\ new[Find(new, s_description)].text
                 = file_dir \o <<":", " ", " ">> \o TextOf(old, s_description)
           /\ Len(new) = Len(old) + created
           /\ \A i \in 1..Len(old) : i \notin {iN, iD} => new[i] = old[i]

C9_Witness ==
    /\ patched.kind = "doc"
    /\ Find(xml_content.children, s_name) = 0
    /\ Find(xml_content.children, s_description) = 1
    /\ Len(xml_content.children) = 2
    /\ xml_content.children[1].text = s_Ride
    /\ group_id = <<"1", "-", "2">>

(***************************************************************************)
(* C10: the input root holds, as its only file, a.zwo with <name>Ride and  *)
(* no description, and the file has been read and written without I/O      *)
(* failure.  The output root then holds a.zwo with a new description       *)
(* File:<parent_base>/<root_base>/a:  and with the name the claim gives.   *)
(***************************************************************************)
C10_Scenario ==
    /\ Started
    /\ LET a == join(input_workout_root_dir, f_a_zwo)
       IN  /\ InputFilesOf(input_workout_root_dir) = {a}
           /\ fsFiles[a] = Doc1
           /\ Get(attempts, a, 0) = 1
           /\ ~IOFailed(a)

C10_Output(name_text) ==
    LET o == join(output_tagged_root_dir, f_a_zwo)
    IN  /\ o \in DOMAIN outFiles
        /\ outFiles[o].kind = "doc"
        /\ TextOf(outFiles[o].children, s_name) = name_text
        /\ Find(Doc1.children, s_description) = 0
        /\ Find(outFiles[o].children, s_description) # 0
        /\ TextOf(outFiles[o].children, s_description)
              = s_File \o basename(dirname(input_workout_root_dir)) \o sep
                    \o basename(input_workout_root_dir) \o sep \o <<"a">>
                    \o <<":", " ", " ">>

\* C10 as claimed: the name element reads "Ride [ ]"
C10_NameWithSpace == C10_Scenario => C10_Output(s_Ride \o <<" ", "[", " ", "]">>)

\* C10 amended: the name element reads "Ride []", the root's identifier being empty
C10_NameEmptyBrackets == C10_Scenario => C10_Output(s_Ride \o <<" ", "[", "]">>)

C10_Witness == C10_Scenario /\ pc = "done"

====
